---- MODULE Spec2Model ----
(***************************************************************************)
(* The real-time capture and streaming pipeline of moveright-backend:      *)
(* app/models/camera.py (Camera, the CaptureAgent) and                     *)
(* app/api/camera_namespace.py (the session registry, the HTTP handlers,   *)
(* the Socket.IO event handlers and the stream_frames background task).    *)
(*                                                                         *)
(* Spec      two users and two connections; every handler runs to its end  *)
(*           as one action, capture loops and stream tasks interleave      *)
(*           with the handlers.                                            *)
(* SpecUser  the same actions for one user on one connection, with room    *)
(*           for a second Camera object and a second task, and devices     *)
(*           that may fail to open.                                        *)
(* SpecRace  CameraStart.post and CameraStop.post of one user on two       *)
(*           request threads, statement by statement.                      *)
(* SpecLock  one Camera: its capture thread, two get_frame callers and a    *)
(*           caller of stop(), statement by statement.                     *)
(* SpecLockFair, SpecStopFair  SpecLock with every thread, or only the     *)
(*           caller of stop(), running on.                                 *)
(* SpecPair  two users on one connection, with room for a Camera each.     *)
(* SpecStreams  two users with started cameras and room for a task each:   *)
(*           the stream events, the capture loops and the stream tasks.    *)
(* SpecFrame one Camera: its capture thread and a thread that builds one  *)
(*           frame message (request_frame or a stream tick), by statement. *)
(* SpecProbe VideoSource.find_source, statement by statement.              *)
(* SpecAngle PoseModel.calculate_joint_angle on grid points.               *)
(* SpecBoth  two users and the CameraStart.post / CameraStop.post of the   *)
(*           /camera and the /pushup_camera namespace, each with its own   *)
(*           active_cameras (app/api/pushup_camera_namespace.py).          *)
(* SpecMeter the FPS counters of the capture loop.                         *)
(***************************************************************************)
EXTENDS Integers, Sequences, FiniteSets, TLC

\* ---------------------------------------------------------------- bounds
\* Frames a device delivers before its reads only fail or block.
MaxFrames == 1
\* Consecutive failed device reads that are counted.
MaxFails == 2
\* The slots for Camera objects alive at once (a finished, unreferenced one is
\* collected) and for stream_frames tasks alive at once, under Spec.
SessionAgents == {1}
SessionTasks == {1}
\* The same under SpecUser.
UserAgents == {1, 2}
UserTasks == {1, 2}

Users == {"u1", "u2"}
Sids == {"s1", "s2"}
NoUser == "nobody"
NoSid == "nosid"
NoAgent == 0
NoThread == "nothread"
\* self.frame = None
NoFrame == 0

VARIABLES
    active_cameras,   \* dict user id -> Camera          (camera_namespace.py:20)
    active_streams,   \* dict user id -> True            (camera_namespace.py:23)
    session_to_user,  \* dict request.sid -> user id     (camera_namespace.py:26)
    connected,        \* clients connected to the /camera namespace
    cam,              \* the Camera objects, by slot
    task,             \* the stream_frames background tasks, by slot
    last,             \* what the last step was and what it sent
    pcs               \* where each thread that runs statement by statement stands

vars == <<active_cameras, active_streams, session_to_user, connected, cam, task, last,
          pcs>>

AgentIds == DOMAIN cam
TaskIds == DOMAIN task

\* ------------------------------------------------------- python dicts
\* d[k] = v
Put(d, k, v) == [x \in DOMAIN d \cup {k} |-> IF x = k THEN v ELSE d[x]]
\* del d[k]
Del(d, k) == [x \in DOMAIN d \ {k} |-> d[x]]
Values(d) == {d[x] : x \in DOMAIN d}
EmptyDict == [x \in {} |-> 0]

\* ------------------------------------------------------------ Camera
\* A slot holding no Camera object.
\* marked: a thread other than the capture loop has written into the array that the
\* slot holds.
FreeCam == [user |-> NoUser, running |-> FALSE, thread |-> "none", frame |-> NoFrame,
            dev |-> "none", lock |-> NoThread, marked |-> FALSE]

\* Camera.__init__: the capture is created (it is open or it is not: cv.VideoCapture
\* does not raise), no frame yet, running, and the capture thread is started.
NewCamera(u, opens) ==
    [user |-> u, running |-> TRUE, thread |-> "alive", frame |-> NoFrame,
     dev |-> IF opens THEN "open" ELSE "closed", lock |-> NoThread, marked |-> FALSE]

\* A Camera that answers with the state of its thread.
is_running_Alive(c) == c.thread = "alive"

\* Camera.is_running
is_running(c) == c.running

\* Camera.get_frame: a copy of the latest frame, or None.
get_frame(c) == c.frame

\* A stop() that leaves the device as it is.
Release_Skip(d) == d

\* capture.release() when capture.isOpened()
Release(d) == IF d = "open" THEN "released" ELSE d

\* What capture.read() can return on device state d after f frames: a frame
\* (TRUE) only from an open device that still has one, and always a failure.
Reads(d, f) == IF d = "open" /\ f < MaxFrames THEN {TRUE, FALSE} ELSE {FALSE}

\* Camera.stop, as the set of Camera states it can return in: running is cleared,
\* the thread is joined for at most 2 s, the device is released. The capture thread
\* is inside capture.read() when stop() is called: either the read returns in time
\* (with a frame, which the loop publishes, or without) and the loop sees the
\* cleared flag and ends, or the join times out and the thread is still in the read.
Stop(c) ==
    LET base == [c EXCEPT !.running = FALSE, !.dev = Release(c.dev)]
    IN  IF c.thread = "alive"
        THEN {base}
             \cup {[base EXCEPT !.thread = "done", !.frame = IF ok THEN @ + 1 ELSE @] :
                      ok \in Reads(c.dev, c.frame)}
        ELSE {base}

\* ------------------------------------------------------ stream task
\* sid: the connection whose start_stream scheduled the task; cleared: the user's
\* active_streams entry was deleted while the task was in its loop; late: the
\* frames the task has emitted since.
FreeTask ==
    [user |-> NoUser, sid |-> NoSid, pc |-> "free", cam |-> NoAgent, cleared |-> FALSE,
     late |-> 0]

\* A start_background_task that schedules nothing.
NewTask_None(u, sid) == FreeTask

\* socketio.start_background_task(stream_frames, user_id, exercise_type)
NewTask(u, sid) == [FreeTask EXCEPT !.user = u, !.sid = sid, !.pc = "start"]

\* A task inside its while loop.
Looping(t) == t.pc \in {"check", "tick", "sleep"}

\* ------------------------------------------------------- collection
\* The Camera objects that the local variables of the threads refer to.
Locals(threads) == {threads[r].cam : r \in DOMAIN threads}

\* A Camera whose thread has finished and that neither the registry nor a task
\* nor a local variable (held) refers to is collected; its slot is free again.
Collect(cams, reg, tasks, held) ==
    [a \in DOMAIN cams |->
        IF cams[a].thread = "done" /\ a \notin Values(reg) \cup held
           /\ \A t \in DOMAIN tasks : tasks[t].cam # a
        THEN FreeCam ELSE cams[a]]

FreeAgents(cams) == {a \in DOMAIN cams : cams[a].thread = "none"}
FreeTasks == {t \in TaskIds : task[t].pc = "free"}
\* The slot a new object takes: the lowest free one.
Lowest(S) == CHOOSE a \in S : \A b \in S : a <= b

\* ---------------------------------------------------------- messages
\* socketio.emit(event, ..., namespace='/camera') names no recipient: every client
\* connected to the namespace receives it.
Recipients == connected

\* A message produced for user u.
Msg(event, u) == [event |-> event, user |-> u]

\* The record of a step: the handler, its connection and user, the messages it
\* emitted and its HTTP status.
Step(op, sid, u, out, code) ==
    [op |-> op, sid |-> sid, user |-> u, out |-> out, code |-> code]

\* A step of a capture loop or of a stream task.
Background(out) == Step("background", NoSid, NoUser, out, 0)

\* -------------------------------------------------------------- Init
InitWith(agents, tasks, threads) ==
    /\ active_cameras = EmptyDict
    /\ active_streams = EmptyDict
    /\ session_to_user = EmptyDict
    /\ connected = {}
    /\ cam = [a \in agents |-> FreeCam]
    /\ task = [t \in tasks |-> FreeTask]
    /\ last = Step("init", NoSid, NoUser, <<>>, 0)
    /\ pcs = threads

Init == InitWith(SessionAgents, SessionTasks, EmptyDict)

\* ------------------------------------------------------ capture loop
\* Camera._update_frame from one return of capture.read() to the next call: a
\* frame is published under the lock, or the read failed and the loop sleeps
\* 0.1 s; then `while self.running` either calls capture.read() again or ends
\* the thread.
CaptureLoop(a, ok) ==
    /\ cam[a].thread = "alive"
    /\ ok \in Reads(cam[a].dev, cam[a].frame)
    /\ cam' = Collect([cam EXCEPT ![a].thread = IF cam[a].running THEN "alive" ELSE "done",
                                  ![a].frame = IF ok THEN @ + 1 ELSE @],
                      active_cameras, task, Locals(pcs))
    /\ last' = Background(<<>>)
    /\ UNCHANGED <<active_cameras, active_streams, session_to_user, connected, task, pcs>>

\* ------------------------------------------------------ HTTP handlers
\* A handler that empties the registry.
AfterStop_Wipe(u, old) ==
    [cams |-> [cam EXCEPT ![active_cameras[u]] = old], reg |-> EmptyDict]

\* A handler that stops the Camera and leaves its entry in the registry.
AfterStop_KeepEntry(u, old) ==
    [cams |-> [cam EXCEPT ![active_cameras[u]] = old], reg |-> active_cameras]

\* The registry and the Camera objects after the handler has stopped u's Camera,
\* left in state `old` by stop(), and deleted its entry.
AfterStop(u, old) ==
    [cams |-> [cam EXCEPT ![active_cameras[u]] = old], reg |-> Del(active_cameras, u)]

\* CameraStart.post for user u. auto: the request names no source; found: the
\* resolver finds a device; opens: cv.VideoCapture opens the source.
StartCamera(u, auto, found, opens) ==
    \E old \in (IF u \in DOMAIN active_cameras
                THEN Stop(cam[active_cameras[u]]) ELSE {FreeCam}) :
        LET s == IF u \in DOMAIN active_cameras
                 THEN AfterStop(u, old)
                 ELSE [cams |-> cam, reg |-> active_cameras]
            cams == Collect(s.cams, s.reg, task, {})
            raises == auto /\ ~found
            a == Lowest(FreeAgents(cams))
        IN  /\ raises \/ FreeAgents(cams) # {}
            /\ IF raises
               THEN /\ cam' = cams
                    /\ active_cameras' = s.reg
                    /\ last' = Step("start_camera", NoSid, u, <<>>, 500)
               ELSE /\ cam' = [cams EXCEPT ![a] = NewCamera(u, opens)]
                    /\ active_cameras' = Put(s.reg, u, a)
                    /\ last' = Step("start_camera", NoSid, u, <<>>, 200)
            /\ UNCHANGED <<active_streams, session_to_user, connected, task, pcs>>

\* CameraStop.post for user u.
StopCamera(u) ==
    IF u \notin DOMAIN active_cameras
    THEN /\ last' = Step("stop_camera", NoSid, u, <<>>, 404)
         /\ UNCHANGED <<active_cameras, active_streams, session_to_user, connected, cam,
                        task, pcs>>
    ELSE \E old \in Stop(cam[active_cameras[u]]) :
            LET s == AfterStop(u, old)
            IN  /\ cam' = Collect(s.cams, s.reg, task, {})
                /\ active_cameras' = s.reg
                /\ last' = Step("stop_camera", NoSid, u, <<>>, 200)
                /\ UNCHANGED <<active_streams, session_to_user, connected, task, pcs>>

\* ------------------------------------------------- Socket.IO handlers
\* The tasks after user u's entry of active_streams has been deleted: those of u
\* inside their loop have had their flag cleared.
MarkCleared(tasks, u) ==
    [t \in DOMAIN tasks |->
        IF tasks[t].user = u /\ Looping(tasks[t])
        THEN [tasks[t] EXCEPT !.cleared = TRUE, !.late = 0] ELSE tasks[t]]

\* A cleanup that clears every user's flag.
ClearStream_All(streams, u) == EmptyDict

\* A cleanup that leaves the flag.
ClearStream_Keep(streams, u) == streams

\* `if user_id in active_streams: del active_streams[user_id]`
ClearStream(streams, u) == IF u \in DOMAIN streams THEN Del(streams, u) ELSE streams

\* handle_connect
HandleConnect(sid) ==
    /\ sid \notin connected
    /\ connected' = connected \cup {sid}
    /\ last' = Step("connect", sid, NoUser, <<>>, 0)
    /\ UNCHANGED <<active_cameras, active_streams, session_to_user, cam, task, pcs>>

\* handle_disconnect for the connection sid.
HandleDisconnect(sid) ==
    /\ connected' = connected \ {sid}
    /\ UNCHANGED pcs
    /\ IF sid \notin DOMAIN session_to_user
       THEN /\ last' = Step("disconnect", sid, NoUser, <<>>, 0)
            /\ UNCHANGED <<active_cameras, active_streams, session_to_user, cam, task>>
       ELSE LET u == session_to_user[sid]
                tasks == IF u \in DOMAIN active_streams THEN MarkCleared(task, u) ELSE task
            IN  /\ active_streams' = ClearStream(active_streams, u)
                /\ task' = tasks
                /\ IF u \in DOMAIN active_cameras
                   THEN \E old \in Stop(cam[active_cameras[u]]) :
                            /\ cam' = Collect(AfterStop(u, old).cams,
                                               AfterStop(u, old).reg, tasks, {})
                            /\ active_cameras' = AfterStop(u, old).reg
                   ELSE UNCHANGED <<active_cameras, cam>>
                /\ session_to_user' = Del(session_to_user, sid)
                /\ last' = Step("disconnect", sid, u, <<>>, 0)

\* A handler that never refuses.
StreamAllowed_Any(u) == TRUE

\* handle_start_stream: `if user_id not in active_cameras` is not taken.
StreamAllowed(u) == u \in DOMAIN active_cameras

\* handle_start_stream: the event {user_id: u, exercise: ex} on connection sid.
NoExercise == "none"
Exercises == {"pushup", "squat"}
HandleStartStream(sid, u, ex) ==
    /\ sid \in connected
    /\ IF ex = NoExercise
       THEN /\ last' = Step("start_stream", sid, u, <<Msg("error", u)>>, 0)
            /\ UNCHANGED <<active_cameras, active_streams, session_to_user, connected, cam,
                           task, pcs>>
       ELSE /\ session_to_user' = Put(session_to_user, sid, u)
            /\ IF ~StreamAllowed(u)
               THEN /\ last' = Step("start_stream", sid, u, <<Msg("error", u)>>, 0)
                    /\ UNCHANGED <<active_cameras, active_streams, connected, cam, task, pcs>>
               ELSE /\ FreeTasks # {}
                    /\ active_streams' = Put(active_streams, u, TRUE)
                    /\ task' = [task EXCEPT ![Lowest(FreeTasks)] = NewTask(u, sid)]
                    /\ last' = Step("start_stream", sid, u,
                                    <<Msg("stream_started", u)>>, 0)
                    /\ UNCHANGED <<active_cameras, connected, cam, pcs>>

\* handle_stop_stream: the event {user_id: u}.
HandleStopStream(sid, u) ==
    /\ sid \in connected
    /\ active_streams' = ClearStream(active_streams, u)
    /\ task' = IF u \in DOMAIN active_streams THEN MarkCleared(task, u) ELSE task
    /\ last' = Step("stop_stream", NoSid, u, <<Msg("stream_stopped", u)>>, 0)
    /\ UNCHANGED <<active_cameras, session_to_user, connected, cam, pcs>>

\* An encoder that delivers an image whatever the slot holds.
get_jpeg_frame_Blank(c, enc) == get_frame(c) + 1

\* Camera.get_jpeg_frame: the slot is read, drawn on and encoded; None when there
\* is no frame and None when cv.imencode fails (enc = FALSE).
get_jpeg_frame(c, enc) == IF get_frame(c) = NoFrame \/ ~enc THEN NoFrame ELSE get_frame(c)

\* An exception escapes the analysis or the drawing of a frame (raises); there is
\* nothing to analyse or draw when the slot holds no frame.
Raises(c, raises) == raises /\ get_frame(c) # NoFrame

\* handle_frame_request: the event {user_id: u}. Every path emits one message:
\* the three refusals, the `except` clause, or the frame.
HandleFrameRequest(sid, u, enc, raises) ==
    /\ sid \in connected
    /\ LET out == IF u \notin DOMAIN active_cameras THEN Msg("error", u)
                  ELSE IF ~is_running(cam[active_cameras[u]]) THEN Msg("error", u)
                  ELSE IF Raises(cam[active_cameras[u]], raises) THEN Msg("error", u)
                  ELSE IF get_jpeg_frame(cam[active_cameras[u]], enc) = NoFrame
                       THEN Msg("error", u)
                  ELSE Msg("frame", u)
       IN  last' = Step("request_frame", sid, u, <<out>>, 0)
    /\ UNCHANGED <<active_cameras, active_streams, session_to_user, connected, cam, task, pcs>>

\* ------------------------------------------------------ stream_frames
\* A return that ends every task.
Finish_All(t) ==
    /\ task' = [x \in DOMAIN task |-> FreeTask]
    /\ cam' = Collect(cam, active_cameras, task', Locals(pcs))

\* The task returns: its slot is free and a Camera only it referred to is collected.
Finish(t) ==
    /\ task' = [task EXCEPT ![t] = FreeTask]
    /\ cam' = Collect(cam, active_cameras, task', Locals(pcs))

\* stream_frames up to the loop: return when the user has no camera, else take it.
TaskBegin(t) ==
    /\ task[t].pc = "start"
    /\ IF task[t].user \notin DOMAIN active_cameras
       THEN Finish(t)
       ELSE /\ task' = [task EXCEPT ![t].pc = "check",
                                    ![t].cam = active_cameras[task[t].user]]
            /\ UNCHANGED cam
    /\ last' = Background(<<>>)
    /\ UNCHANGED <<active_cameras, active_streams, session_to_user, connected, pcs>>

\* `while camera.is_running() and active_streams.get(user_id, False)`
LoopCondition(t) ==
    /\ is_running(cam[task[t].cam])
    /\ task[t].user \in DOMAIN active_streams

TaskCheck(t) ==
    /\ task[t].pc = "check"
    /\ IF LoopCondition(t)
       THEN task' = [task EXCEPT ![t].pc = "tick"] /\ UNCHANGED cam
       ELSE Finish(t)
    /\ last' = Background(<<>>)
    /\ UNCHANGED <<active_cameras, active_streams, session_to_user, connected, pcs>>

\* One pass of the loop body: the raw frame is read and analysed, the JPEG frame
\* is taken. An exception is logged and breaks the loop; None goes straight back
\* to the loop condition (`continue`); a frame is emitted and the task goes on to
\* its sleep.
TaskTick(t, enc, raises) ==
    /\ task[t].pc = "tick"
    /\ IF Raises(cam[task[t].cam], raises)
       THEN /\ Finish(t)
            /\ last' = Step("stream_error", NoSid, task[t].user, <<>>, 0)
       ELSE IF get_jpeg_frame(cam[task[t].cam], enc) = NoFrame
       THEN /\ task' = [task EXCEPT ![t].pc = "check"]
            /\ last' = Background(<<>>)
            /\ UNCHANGED cam
       ELSE /\ task' = [task EXCEPT ![t].pc = "sleep",
                                    ![t].late = IF task[t].cleared /\ @ < 2 THEN @ + 1 ELSE @]
            /\ last' = Background(<<Msg("frame", task[t].user)>>)
            /\ UNCHANGED cam
    /\ UNCHANGED <<active_cameras, active_streams, session_to_user, connected, pcs>>

\* A sleep after which the task deletes its user's stream flag.
TaskSleep_Unflag(t) ==
    /\ task[t].pc = "sleep"
    /\ task' = [task EXCEPT ![t].pc = "check"]
    /\ active_streams' = Del(active_streams, task[t].user)
    /\ last' = Background(<<>>)
    /\ UNCHANGED <<active_cameras, session_to_user, connected, cam, pcs>>

\* `socketio.sleep(0.033)`, then back to the loop condition.
TaskSleep(t) ==
    /\ task[t].pc = "sleep"
    /\ task' = [task EXCEPT ![t].pc = "check"]
    /\ last' = Background(<<>>)
    /\ UNCHANGED <<active_cameras, active_streams, session_to_user, connected, cam, pcs>>

\* ------------------------------------------------------ specification
NextFor(U, S, O) ==
    \/ \E u \in U, auto, found \in BOOLEAN, opens \in O : StartCamera(u, auto, found, opens)
    \/ \E u \in U : StopCamera(u)
    \/ \E sid \in S : HandleConnect(sid)
    \/ \E sid \in S : HandleDisconnect(sid)
    \/ \E sid \in S, u \in U, ex \in Exercises \cup {NoExercise} :
            HandleStartStream(sid, u, ex)
    \/ \E sid \in S, u \in U : HandleStopStream(sid, u)
    \/ \E sid \in S, u \in U, enc, raises \in BOOLEAN :
            HandleFrameRequest(sid, u, enc, raises)
    \/ \E a \in AgentIds, ok \in BOOLEAN : CaptureLoop(a, ok)
    \/ \E t \in TaskIds : TaskBegin(t)
    \/ \E t \in TaskIds : TaskCheck(t)
    \/ \E t \in TaskIds, enc, raises \in BOOLEAN : TaskTick(t, enc, raises)
    \/ \E t \in TaskIds : TaskSleep(t)

Next == NextFor(Users, Sids, {TRUE})

Spec == Init /\ [][Next]_vars

InitUser == InitWith(UserAgents, UserTasks, EmptyDict)
NextUser == NextFor({"u1"}, {"s1"}, BOOLEAN)
SpecUser == InitUser /\ [][NextUser]_vars

\* Two users on one connection, with room for a Camera each.
InitPair == InitWith(UserAgents, SessionTasks, EmptyDict)
NextPair == NextFor(Users, {"s1"}, {TRUE})
SpecPair == InitPair /\ [][NextPair]_vars

\* ------------------------------------------- the /pushup_camera namespace
\* pushup_camera_namespace.py has an `active_cameras` of its own. In SpecBoth it is
\* kept in pcs: pcs[u].cam is the Camera that this second dict maps u to, NoAgent
\* when u is not a key of it.
NoPushup == [pc |-> "pushup_camera", cam |-> NoAgent]

\* `current_user_id in active_cameras` of pushup_camera_namespace
PushupHas(u) == pcs[u].cam # NoAgent

\* /pushup_camera CameraStart.post for user u. auto: the request carries a null
\* source; found: the resolver finds a device; opens: cv.VideoCapture opens it.
PushupCameraStart(u, auto, found, opens) ==
    LET a == Lowest(FreeAgents(cam))
        raises == auto /\ ~found
    IN  /\ PushupHas(u) \/ raises \/ FreeAgents(cam) # {}
        /\ IF PushupHas(u)
           THEN /\ last' = Step("pushup_start_camera", NoSid, u, <<>>, 400)
                /\ UNCHANGED <<cam, pcs>>
           ELSE IF raises
           THEN /\ last' = Step("pushup_start_camera", NoSid, u, <<>>, 500)
                /\ UNCHANGED <<cam, pcs>>
           ELSE /\ cam' = [cam EXCEPT ![a] = NewCamera(u, opens)]
                /\ pcs' = [pcs EXCEPT ![u].cam = a]
                /\ last' = Step("pushup_start_camera", NoSid, u, <<>>, 200)
        /\ UNCHANGED <<active_cameras, active_streams, session_to_user, connected, task>>

\* /pushup_camera CameraStop.post for user u.
PushupCameraStop(u) ==
    IF ~PushupHas(u)
    THEN /\ last' = Step("pushup_stop_camera", NoSid, u, <<>>, 404)
         /\ UNCHANGED <<active_cameras, active_streams, session_to_user, connected, cam,
                        task, pcs>>
    ELSE \E old \in Stop(cam[pcs[u].cam]) :
            /\ pcs' = [pcs EXCEPT ![u].cam = NoAgent]
            /\ cam' = Collect([cam EXCEPT ![pcs[u].cam] = old], active_cameras, task,
                              Locals(pcs'))
            /\ last' = Step("pushup_stop_camera", NoSid, u, <<>>, 200)
            /\ UNCHANGED <<active_cameras, active_streams, session_to_user, connected,
                           task>>

\* Both namespaces of the application, two users, room for two Cameras.
InitBoth == InitWith(UserAgents, SessionTasks, [u \in Users |-> NoPushup])

NextBoth ==
    \/ \E u \in Users, auto, found, opens \in BOOLEAN : StartCamera(u, auto, found, opens)
    \/ \E u \in Users : StopCamera(u)
    \/ \E u \in Users, auto, found, opens \in BOOLEAN :
            PushupCameraStart(u, auto, found, opens)
    \/ \E u \in Users : PushupCameraStop(u)
    \/ \E a \in AgentIds, ok \in BOOLEAN : CaptureLoop(a, ok)

SpecBoth == InitBoth /\ [][NextBoth]_vars

\* Two users whose cameras have been started, one connection, room for a task
\* each: the events of the connection, the capture loops and the stream tasks.
InitStreams ==
    /\ active_cameras = Put(Put(EmptyDict, "u1", 1), "u2", 2)
    /\ active_streams = EmptyDict
    /\ session_to_user = EmptyDict
    /\ connected = {"s1"}
    /\ cam = [a \in UserAgents |-> NewCamera(IF a = 1 THEN "u1" ELSE "u2", TRUE)]
    /\ task = [t \in UserTasks |-> FreeTask]
    /\ last = Step("start_camera", NoSid, "u2", <<>>, 200)
    /\ pcs = EmptyDict

NextStreams ==
    \/ \E u \in Users, ex \in Exercises \cup {NoExercise} : HandleStartStream("s1", u, ex)
    \/ \E u \in Users : HandleStopStream("s1", u)
    \/ \E a \in AgentIds, ok \in BOOLEAN : CaptureLoop(a, ok)
    \/ \E t \in TaskIds : TaskBegin(t)
    \/ \E t \in TaskIds : TaskCheck(t)
    \/ \E t \in TaskIds, enc, raises \in BOOLEAN : TaskTick(t, enc, raises)
    \/ \E t \in TaskIds : TaskSleep(t)

SpecStreams == InitStreams /\ [][NextStreams]_vars

\* ------------------------------------------- the HTTP handlers, by statement
\* CameraStart.post and CameraStop.post run on request threads for one user; a
\* request thread stands before one statement and its `camera` local refers to
\* a Camera or to none. No statement of either handler takes a lock.
Requests == {"r1", "r2"}
RaceUser == "u1"
IdleRequest == [op |-> "none", pc |-> "idle", cam |-> NoAgent]

\* The handler returns with an HTTP status.
Respond(r, op, code) ==
    /\ pcs' = [pcs EXCEPT ![r] = IdleRequest]
    /\ last' = Step(op, NoSid, RaceUser, <<>>, code)

\* The request thread goes on to the statement at pc.
Goto(r, pc) ==
    /\ pcs' = [pcs EXCEPT ![r].pc = pc]
    /\ last' = Background(<<>>)

\* A request arrives and its handler is entered.
RequestArrives(r, op) ==
    /\ pcs[r].pc = "idle"
    /\ pcs' = [pcs EXCEPT ![r] = [op |-> op, pc |-> "check", cam |-> NoAgent]]
    /\ last' = Background(<<>>)
    /\ UNCHANGED <<active_cameras, active_streams, session_to_user, connected, cam, task>>

\* CameraStart.post: `if current_user_id in active_cameras:`
StartCheck(r) ==
    /\ pcs[r].op = "start_camera" /\ pcs[r].pc = "check"
    /\ Goto(r, IF RaceUser \in DOMAIN active_cameras THEN "stop_old" ELSE "create")
    /\ UNCHANGED <<active_cameras, active_streams, session_to_user, connected, cam, task>>

\* CameraStart.post: `active_cameras[current_user_id].stop()`; the entry may be
\* gone by now (KeyError, status 500).
StartStopOld(r) ==
    /\ pcs[r].op = "start_camera" /\ pcs[r].pc = "stop_old"
    /\ IF RaceUser \notin DOMAIN active_cameras
       THEN Respond(r, "start_camera", 500) /\ UNCHANGED cam
       ELSE /\ \E old \in Stop(cam[active_cameras[RaceUser]]) :
                    cam' = [cam EXCEPT ![active_cameras[RaceUser]] = old]
            /\ Goto(r, "del_old")
    /\ UNCHANGED <<active_cameras, active_streams, session_to_user, connected, task>>

\* CameraStart.post: `del active_cameras[current_user_id]`
StartDelOld(r) ==
    /\ pcs[r].op = "start_camera" /\ pcs[r].pc = "del_old"
    /\ IF RaceUser \notin DOMAIN active_cameras
       THEN Respond(r, "start_camera", 500) /\ UNCHANGED <<active_cameras, cam>>
       ELSE /\ active_cameras' = Del(active_cameras, RaceUser)
            /\ Goto(r, "create")
            /\ cam' = Collect(cam, active_cameras', task, Locals(pcs'))
    /\ UNCHANGED <<active_streams, session_to_user, connected, task>>

\* CameraStart.post: `camera = Camera(source=source, user_id=current_user_id)`;
\* raises: no source is named and the resolver finds none (status 500).
StartCreate(r, raises) ==
    /\ pcs[r].op = "start_camera" /\ pcs[r].pc = "create"
    /\ IF raises
       THEN Respond(r, "start_camera", 500) /\ UNCHANGED cam
       ELSE /\ FreeAgents(cam) # {}
            /\ cam' = [cam EXCEPT ![Lowest(FreeAgents(cam))] = NewCamera(RaceUser, TRUE)]
            /\ pcs' = [pcs EXCEPT ![r].pc = "insert", ![r].cam = Lowest(FreeAgents(cam))]
            /\ last' = Background(<<>>)
    /\ UNCHANGED <<active_cameras, active_streams, session_to_user, connected, task>>

\* CameraStart.post: `active_cameras[current_user_id] = camera`, status 200.
StartInsert(r) ==
    /\ pcs[r].op = "start_camera" /\ pcs[r].pc = "insert"
    /\ active_cameras' = Put(active_cameras, RaceUser, pcs[r].cam)
    /\ Respond(r, "start_camera", 200)
    /\ cam' = Collect(cam, active_cameras', task, Locals(pcs'))
    /\ UNCHANGED <<active_streams, session_to_user, connected, task>>

\* CameraStop.post: `if current_user_id not in active_cameras:` status 404.
StopCheck(r) ==
    /\ pcs[r].op = "stop_camera" /\ pcs[r].pc = "check"
    /\ IF RaceUser \notin DOMAIN active_cameras
       THEN Respond(r, "stop_camera", 404)
       ELSE Goto(r, "get")
    /\ UNCHANGED <<active_cameras, active_streams, session_to_user, connected, cam, task>>

\* CameraStop.post: `camera = active_cameras[current_user_id]` (KeyError: 500).
StopGet(r) ==
    /\ pcs[r].op = "stop_camera" /\ pcs[r].pc = "get"
    /\ IF RaceUser \notin DOMAIN active_cameras
       THEN Respond(r, "stop_camera", 500)
       ELSE /\ pcs' = [pcs EXCEPT ![r].pc = "stop", ![r].cam = active_cameras[RaceUser]]
            /\ last' = Background(<<>>)
    /\ UNCHANGED <<active_cameras, active_streams, session_to_user, connected, cam, task>>

\* CameraStop.post: `camera.stop()`
StopStop(r) ==
    /\ pcs[r].op = "stop_camera" /\ pcs[r].pc = "stop"
    /\ \E old \in Stop(cam[pcs[r].cam]) : cam' = [cam EXCEPT ![pcs[r].cam] = old]
    /\ Goto(r, "del")
    /\ UNCHANGED <<active_cameras, active_streams, session_to_user, connected, task>>

\* CameraStop.post: `del active_cameras[current_user_id]` (KeyError: 500), else 200.
StopDel(r) ==
    /\ pcs[r].op = "stop_camera" /\ pcs[r].pc = "del"
    /\ IF RaceUser \notin DOMAIN active_cameras
       THEN /\ Respond(r, "stop_camera", 500)
            /\ UNCHANGED active_cameras
       ELSE /\ active_cameras' = Del(active_cameras, RaceUser)
            /\ Respond(r, "stop_camera", 200)
    /\ cam' = Collect(cam, active_cameras', task, Locals(pcs'))
    /\ UNCHANGED <<active_streams, session_to_user, connected, task>>

InitRace == InitWith(UserAgents, SessionTasks, [r \in Requests |-> IdleRequest])

NextRace ==
    \/ \E r \in Requests, op \in {"start_camera", "stop_camera"} : RequestArrives(r, op)
    \/ \E r \in Requests : StartCheck(r)
    \/ \E r \in Requests : StartStopOld(r)
    \/ \E r \in Requests : StartDelOld(r)
    \/ \E r \in Requests, raises \in BOOLEAN : StartCreate(r, raises)
    \/ \E r \in Requests : StartInsert(r)
    \/ \E r \in Requests : StopCheck(r)
    \/ \E r \in Requests : StopGet(r)
    \/ \E r \in Requests : StopStop(r)
    \/ \E r \in Requests : StopDel(r)
    \/ \E a \in AgentIds, ok \in BOOLEAN : CaptureLoop(a, ok)

SpecRace == InitRace /\ [][NextRace]_vars

\* --------------------------------------------- the frame slot, by statement
\* One running Camera, its capture thread in Camera._update_frame, two reader
\* threads in Camera.get_frame (which request-frame, the stream task and
\* take_picture all go through) and one thread in CameraStop.post calling
\* Camera.stop; a thread stands before one statement. got is the frame a thread has
\* in hand: the one read from the device, or the reader's copy. fails counts the
\* capture thread's consecutive failed reads, up to MaxFails.
Readers == {"reader1", "reader2"}
Capture == "capture"
Stopper == "stopper"
LockAgent == Lowest(SessionAgents)

\* A lock that never makes a thread wait.
CanAcquire_Always(c) == TRUE

\* `with self.lock:` is entered only when no thread holds the lock.
CanAcquire(c) == c.lock = NoThread

\* A loop that gives up after MaxFails failed reads in a row.
KeepCapturing_GiveUp(c, fails) == c.running /\ fails < MaxFails

\* Camera._update_frame: `while self.running:`, whatever the reads returned.
KeepCapturing(c, fails) == c.running

\* A join without a timeout.
JoinReturns_Unbounded(c) == c.thread = "done"

\* Camera.stop: `self.thread.join(timeout=2.0)` returns when the thread has ended
\* and returns when 2 s have passed.
JoinReturns(c) == TRUE

\* The thread th goes on to the statement at pc with `got` in hand.
Move(th, pc, got) ==
    /\ pcs' = [pcs EXCEPT ![th].pc = pc, ![th].got = got]
    /\ last' = Background(<<>>)
    /\ UNCHANGED <<active_cameras, active_streams, session_to_user, connected, task>>

\* Camera._update_frame: `while self.running:`
UpdateFrameWhile ==
    /\ pcs[Capture].pc = "while"
    /\ LET on == KeepCapturing(cam[LockAgent], pcs[Capture].fails)
       IN  /\ Move(Capture, IF on THEN "read" ELSE "done", NoFrame)
           /\ cam' = [cam EXCEPT ![LockAgent].thread = IF on THEN "alive" ELSE "done"]

\* Camera._update_frame: `success, frame = self.capture.read()` and the test of it.
UpdateFrameRead(ok) ==
    /\ pcs[Capture].pc = "read"
    /\ ok \in Reads(cam[LockAgent].dev, cam[LockAgent].frame)
    /\ pcs' = [pcs EXCEPT ![Capture].pc = IF ok THEN "acquire" ELSE "sleep",
                          ![Capture].got = IF ok THEN cam[LockAgent].frame + 1 ELSE NoFrame,
                          ![Capture].fails = IF ok THEN 0
                                             ELSE IF @ < MaxFails THEN @ + 1 ELSE @]
    /\ last' = Background(<<>>)
    /\ UNCHANGED <<active_cameras, active_streams, session_to_user, connected, task, cam>>

\* Camera._update_frame: `with self.lock:` is entered.
UpdateFrameAcquire ==
    /\ pcs[Capture].pc = "acquire"
    /\ CanAcquire(cam[LockAgent])
    /\ Move(Capture, "assign", pcs[Capture].got)
    /\ cam' = [cam EXCEPT ![LockAgent].lock = Capture]

\* Camera._update_frame: `self.frame = frame`
UpdateFrameAssign ==
    /\ pcs[Capture].pc = "assign"
    /\ Move(Capture, "release", pcs[Capture].got)
    /\ cam' = [cam EXCEPT ![LockAgent].frame = pcs[Capture].got,
                          ![LockAgent].marked = FALSE]

\* Camera._update_frame: the `with` block is left; the FPS counters follow.
UpdateFrameRelease ==
    /\ pcs[Capture].pc = "release"
    /\ Move(Capture, "while", NoFrame)
    /\ cam' = [cam EXCEPT ![LockAgent].lock = NoThread]

\* Camera._update_frame: `time.sleep(0.1)` after a failed read.
UpdateFrameSleep ==
    /\ pcs[Capture].pc = "sleep"
    /\ Move(Capture, "while", NoFrame)
    /\ UNCHANGED cam

\* Camera.get_frame is called.
GetFrameCall(th) ==
    /\ pcs[th].pc = "idle"
    /\ Move(th, "acquire", NoFrame)
    /\ UNCHANGED cam

\* Camera.get_frame: `with self.lock:` is entered.
GetFrameAcquire(th) ==
    /\ pcs[th].pc = "acquire"
    /\ CanAcquire(cam[LockAgent])
    /\ Move(th, "copy", NoFrame)
    /\ cam' = [cam EXCEPT ![LockAgent].lock = th]

\* A get_frame that returns the array of the slot itself.
SharesSlot_NoCopy(frame) == frame # NoFrame

\* Camera.get_frame: `self.frame.copy()` is a new array, not the one in the slot.
SharesSlot(frame) == FALSE

\* Camera.get_frame: `self.frame.copy() if self.frame is not None else None`
GetFrameCopy(th) ==
    /\ pcs[th].pc = "copy"
    /\ pcs' = [pcs EXCEPT ![th].pc = "release",
                          ![th].got = get_frame(cam[LockAgent]),
                          ![th].alias = SharesSlot(get_frame(cam[LockAgent]))]
    /\ last' = Background(<<>>)
    /\ UNCHANGED <<active_cameras, active_streams, session_to_user, connected, task, cam>>

\* Camera.get_frame: the `with` block is left and the copy is returned.
GetFrameRelease(th) ==
    /\ pcs[th].pc = "release"
    /\ Move(th, "idle", pcs[th].got)
    /\ cam' = [cam EXCEPT ![LockAgent].lock = NoThread]

\* The caller of get_frame writes into the array it was given (it draws on it)
\* and lets go of it: the slot is written only if it holds that very array.
GetFrameDraw(th) ==
    /\ pcs[th].pc = "idle"
    /\ pcs[th].got # NoFrame
    /\ pcs' = [pcs EXCEPT ![th].got = NoFrame, ![th].alias = FALSE]
    /\ cam' = [cam EXCEPT ![LockAgent].marked =
                  @ \/ (pcs[th].alias /\ cam[LockAgent].frame = pcs[th].got)]
    /\ last' = Step("draw", NoSid, NoUser, <<>>, 0)
    /\ UNCHANGED <<active_cameras, active_streams, session_to_user, connected, task>>

\* A capture that is taken to be open whatever its state.
isOpened_Always(d) == TRUE

\* self.capture.isOpened()
isOpened(d) == d = "open"

\* CameraStop.post has found the Camera and calls Camera.stop:
\* `self.running = False`
StopRunning ==
    /\ pcs[Stopper].pc = "idle"
    /\ Move(Stopper, "join", NoFrame)
    /\ cam' = [cam EXCEPT ![LockAgent].running = FALSE]

\* Camera.stop: `if self.thread.is_alive(): self.thread.join(timeout=2.0)`
StopJoin ==
    /\ pcs[Stopper].pc = "join"
    /\ JoinReturns(cam[LockAgent])
    /\ Move(Stopper, "release_dev", NoFrame)
    /\ UNCHANGED cam

\* Camera.stop: `if self.capture.isOpened(): self.capture.release()`
StopRelease ==
    /\ pcs[Stopper].pc = "release_dev"
    /\ pcs' = [pcs EXCEPT ![Stopper].pc = "del",
                          ![Stopper].releases =
                              IF isOpened(cam[LockAgent].dev) THEN @ + 1 ELSE @]
    /\ cam' = [cam EXCEPT ![LockAgent].dev = Release(@)]
    /\ last' = Background(<<>>)
    /\ UNCHANGED <<active_cameras, active_streams, session_to_user, connected, task>>

\* CameraStop.post after stop() has returned: `del active_cameras[...]`, 200.
StopDelete ==
    /\ pcs[Stopper].pc = "del"
    /\ pcs' = [pcs EXCEPT ![Stopper].pc = "returned"]
    /\ active_cameras' = Del(active_cameras, RaceUser)
    /\ last' = Step("stop_camera", NoSid, RaceUser, <<>>, 200)
    /\ UNCHANGED <<active_streams, session_to_user, connected, task, cam>>

\* stop() is called once more on the Camera that was stopped and removed, by a
\* holder of the object or by Camera.__del__: `self.running = False`
StopAgainRunning ==
    /\ pcs[Stopper].pc = "returned"
    /\ Move(Stopper, "again_join", NoFrame)
    /\ cam' = [cam EXCEPT ![LockAgent].running = FALSE]

\* The second call: `if self.thread.is_alive(): self.thread.join(timeout=2.0)`
StopAgainJoin ==
    /\ pcs[Stopper].pc = "again_join"
    /\ JoinReturns(cam[LockAgent])
    /\ Move(Stopper, "again_release", NoFrame)
    /\ UNCHANGED cam

\* The second call: `if self.capture.isOpened(): self.capture.release()`
StopAgainRelease ==
    /\ pcs[Stopper].pc = "again_release"
    /\ pcs' = [pcs EXCEPT ![Stopper].pc = "finished",
                          ![Stopper].releases =
                              IF isOpened(cam[LockAgent].dev) THEN @ + 1 ELSE @]
    /\ cam' = [cam EXCEPT ![LockAgent].dev = Release(@)]
    /\ last' = Background(<<>>)
    /\ UNCHANGED <<active_cameras, active_streams, session_to_user, connected, task>>

\* The state after CameraStart.post has registered a Camera for RaceUser.
InitLock ==
    /\ active_cameras = Put(EmptyDict, RaceUser, LockAgent)
    /\ active_streams = EmptyDict
    /\ session_to_user = EmptyDict
    /\ connected = {}
    /\ cam = [a \in SessionAgents |-> NewCamera(RaceUser, TRUE)]
    /\ task = [t \in SessionTasks |-> FreeTask]
    /\ last = Step("start_camera", NoSid, RaceUser, <<>>, 200)
    /\ pcs = [th \in Readers \cup {Capture, Stopper} |->
                [pc |-> IF th = Capture THEN "while" ELSE "idle", cam |-> LockAgent,
                 got |-> NoFrame, fails |-> 0, alias |-> FALSE, releases |-> 0]]

\* The steps of the capture thread, of a thread inside get_frame's `with` block,
\* and of the thread in CameraStop.post.
CaptureSteps ==
    \/ UpdateFrameWhile
    \/ \E ok \in BOOLEAN : UpdateFrameRead(ok)
    \/ UpdateFrameAssign
    \/ UpdateFrameRelease
    \/ UpdateFrameSleep
HolderSteps == \E th \in Readers : GetFrameCopy(th) \/ GetFrameRelease(th)
StopSteps == StopRunning \/ StopJoin \/ StopRelease \/ StopDelete

NextLock ==
    \/ UpdateFrameWhile
    \/ \E ok \in BOOLEAN : UpdateFrameRead(ok)
    \/ UpdateFrameAcquire
    \/ UpdateFrameAssign
    \/ UpdateFrameRelease
    \/ UpdateFrameSleep
    \/ \E th \in Readers : GetFrameCall(th)
    \/ \E th \in Readers : GetFrameAcquire(th)
    \/ \E th \in Readers : GetFrameCopy(th)
    \/ \E th \in Readers : GetFrameRelease(th)
    \/ \E th \in Readers : GetFrameDraw(th)
    \/ StopRunning
    \/ StopJoin
    \/ StopRelease
    \/ StopDelete
    \/ StopAgainRunning
    \/ StopAgainJoin
    \/ StopAgainRelease

SpecLock == InitLock /\ [][NextLock]_vars

\* The thread in CameraStop.post keeps running; nothing is assumed of the others.
SpecStopFair == SpecLock /\ WF_vars(StopSteps)

\* Every thread keeps running, device reads return, and a thread waiting for the
\* lock gets it once it is free often enough.
SpecLockFair ==
    /\ SpecLock
    /\ WF_vars(StopSteps)
    /\ WF_vars(CaptureSteps)
    /\ WF_vars(HolderSteps)
    /\ SF_vars(UpdateFrameAcquire)

\* ------------------------------------------ the frame pipeline, by statement
\* One running Camera with its capture thread, and one thread that produces a
\* frame message: handle_frame_request (kind "request") or one iteration of
\* stream_frames (kind "stream"). Both read the slot twice: camera.get_frame()
\* for the analysis, and get_frame() again inside camera.get_jpeg_frame().
\* raw: the frame analysed; lm: what the landmark stage said; analysis: the
\* result of analyze_frame_with_svm; img: the frame drawn and encoded; svm:
\* whether SVMFormClassifier() loaded when the module was imported.
Pipeline == "pipeline"
FrameSid == "s1"
Kinds == {"request", "stream"}
NoForm == "null"
\* analysis = None
NoAnalysis == [angles |-> {}, svm |-> NoForm]

\* The angles of every mode named as the pushup ones.
AngleNames_Pushup(ex) == {"elbow", "body", "shoulder"}

\* analyze_frame_with_svm: the keys of angle_dict for the exercise.
AngleNames(ex) == IF ex = "pushup" THEN {"elbow", "body", "shoulder"}
                  ELSE {"knee", "hip", "back"}

\* An analysis that reports angles whatever the landmark stage found.
analyze_frame_with_svm_Always(ex, lm, loaded) ==
    [angles |-> AngleNames(ex), svm |-> IF loaded THEN "form" ELSE NoForm]

\* analyze_frame_with_svm on a frame: None when results.pose_landmarks is empty
\* (lm = FALSE), else the three angles and the prediction of the classifier, None
\* when svm_classifier is None.
analyze_frame_with_svm(ex, lm, loaded) ==
    IF ~lm THEN NoAnalysis
    ELSE [angles |-> AngleNames(ex), svm |-> IF loaded THEN "form" ELSE NoForm]

\* A `with` block that is left with the lock still held.
LeaveWith_Held(c) == c

\* `with self.lock:` is left: the lock is released.
LeaveWith(c) == [c EXCEPT !.lock = NoThread]

\* The pipeline thread goes on to the statement at pc.
PipeMove(pc) ==
    /\ pcs' = [pcs EXCEPT ![Pipeline].pc = pc]
    /\ last' = Background(<<>>)
    /\ UNCHANGED <<active_cameras, active_streams, session_to_user, connected, task>>

\* The message step that ends a pipeline run: back to idle after a request, to the
\* inter-tick sleep or out of the loop in a stream task.
PipeEnd(pc, step) ==
    /\ pcs' = [pcs EXCEPT ![Pipeline].pc = pc]
    /\ last' = step
    /\ UNCHANGED <<active_cameras, active_streams, session_to_user, connected, task, cam>>

\* handle_frame_request up to `raw_frame = camera.get_frame()`, or the loop test
\* of stream_frames: the user has a Camera and it is running.
PipeCall(kind, ex) ==
    /\ pcs[Pipeline].pc = "idle"
    /\ RaceUser \in DOMAIN active_cameras
    /\ is_running(cam[LockAgent])
    /\ pcs' = [pcs EXCEPT ![Pipeline] =
                  [@ EXCEPT !.pc = "raw_acquire", !.kind = kind, !.ex = ex,
                            !.lm = "unknown", !.raw = NoFrame, !.analysis = NoAnalysis,
                            !.img = NoFrame]]
    /\ last' = Background(<<>>)
    /\ UNCHANGED <<active_cameras, active_streams, session_to_user, connected, task, cam>>

\* camera.get_frame(): `with self.lock:` is entered.
PipeRawAcquire ==
    /\ pcs[Pipeline].pc = "raw_acquire"
    /\ CanAcquire(cam[LockAgent])
    /\ PipeMove("raw_copy")
    /\ cam' = [cam EXCEPT ![LockAgent].lock = Pipeline]

\* camera.get_frame(): the copy of the slot, and the `with` block is left.
PipeRawCopy ==
    /\ pcs[Pipeline].pc = "raw_copy"
    /\ pcs' = [pcs EXCEPT ![Pipeline].pc = "analyze",
                          ![Pipeline].raw = get_frame(cam[LockAgent])]
    /\ cam' = [cam EXCEPT ![LockAgent] = LeaveWith(@)]
    /\ last' = Background(<<>>)
    /\ UNCHANGED <<active_cameras, active_streams, session_to_user, connected, task>>

\* An exception escapes analyze_frame_with_svm: the classifier's, on the angles of
\* a frame with landmarks.
AnalysisRaises(lm, loaded, raises) == raises /\ lm /\ loaded

\* `if raw_frame is not None: analysis = analyze_frame_with_svm(raw_frame, ...)`;
\* an exception goes to the `except` clause: an error message for a request, the
\* log and `break` for a stream task.
PipeAnalyze(lm, raises) ==
    /\ pcs[Pipeline].pc = "analyze"
    /\ IF pcs[Pipeline].raw = NoFrame
       THEN /\ PipeMove("jpeg_acquire")
            /\ UNCHANGED cam
       ELSE IF AnalysisRaises(lm, pcs[Pipeline].svm, raises)
       THEN /\ pcs' = [pcs EXCEPT ![Pipeline].pc = "idle", ![Pipeline].lm = "found"]
            /\ last' = IF pcs[Pipeline].kind = "request"
                       THEN Step("request_frame", FrameSid, RaceUser,
                                 <<Msg("error", RaceUser)>>, 0)
                       ELSE Step("stream_error", NoSid, RaceUser, <<>>, 0)
            /\ UNCHANGED <<active_cameras, active_streams, session_to_user, connected,
                           task, cam>>
       ELSE /\ pcs' = [pcs EXCEPT
                         ![Pipeline].pc = "jpeg_acquire",
                         ![Pipeline].lm = IF lm THEN "found" ELSE "none",
                         ![Pipeline].analysis =
                             analyze_frame_with_svm(pcs[Pipeline].ex, lm, pcs[Pipeline].svm)]
            /\ last' = Background(<<>>)
            /\ UNCHANGED <<active_cameras, active_streams, session_to_user, connected,
                           task, cam>>

\* camera.get_jpeg_frame(): get_frame() enters `with self.lock:`.
PipeJpegAcquire ==
    /\ pcs[Pipeline].pc = "jpeg_acquire"
    /\ CanAcquire(cam[LockAgent])
    /\ PipeMove("jpeg_copy")
    /\ cam' = [cam EXCEPT ![LockAgent].lock = Pipeline]

\* camera.get_jpeg_frame(): the copy of the slot, and the `with` block is left.
PipeJpegCopy ==
    /\ pcs[Pipeline].pc = "jpeg_copy"
    /\ pcs' = [pcs EXCEPT ![Pipeline].pc = "encode",
                          ![Pipeline].img = get_frame(cam[LockAgent])]
    /\ cam' = [cam EXCEPT ![LockAgent] = LeaveWith(@)]
    /\ last' = Background(<<>>)
    /\ UNCHANGED <<active_cameras, active_streams, session_to_user, connected, task>>

\* camera.get_jpeg_frame() from `if frame is None` on, and the caller's
\* `if frame is None`: the error message of a request, `continue` in a stream task.
PipeEncode(enc) ==
    /\ pcs[Pipeline].pc = "encode"
    /\ IF pcs[Pipeline].img = NoFrame \/ ~enc
       THEN IF pcs[Pipeline].kind = "request"
            THEN PipeEnd("idle", Step("request_frame", FrameSid, RaceUser,
                                      <<Msg("error", RaceUser)>>, 0))
            ELSE PipeEnd("idle", Background(<<>>))
       ELSE /\ PipeMove("emit")
            /\ UNCHANGED cam

\* socketio.emit('frame', {'image': ..., 'analysis': analysis}, namespace='/camera')
PipeEmit ==
    /\ pcs[Pipeline].pc = "emit"
    /\ IF pcs[Pipeline].kind = "request"
       THEN PipeEnd("idle", Step("request_frame", FrameSid, RaceUser,
                                 <<Msg("frame", RaceUser)>>, 0))
       ELSE PipeEnd("sleep", Background(<<Msg("frame", RaceUser)>>))

\* stream_frames: socketio.sleep(0.033)
PipeSleep ==
    /\ pcs[Pipeline].pc = "sleep"
    /\ PipeMove("idle")
    /\ UNCHANGED cam

\* The state after CameraStart.post has registered a Camera for RaceUser and a
\* client has connected; the classifier has loaded or it has not.
InitFrame ==
    \E loaded \in BOOLEAN :
        /\ active_cameras = Put(EmptyDict, RaceUser, LockAgent)
        /\ active_streams = EmptyDict
        /\ session_to_user = EmptyDict
        /\ connected = {FrameSid}
        /\ cam = [a \in SessionAgents |-> NewCamera(RaceUser, TRUE)]
        /\ task = [t \in SessionTasks |-> FreeTask]
        /\ last = Step("connect", FrameSid, NoUser, <<>>, 0)
        /\ pcs = [th \in {Capture, Pipeline} |->
                    IF th = Capture
                    THEN [pc |-> "while", cam |-> LockAgent, got |-> NoFrame, fails |-> 0]
                    ELSE [pc |-> "idle", cam |-> LockAgent, kind |-> "request",
                          ex |-> "pushup", svm |-> loaded, lm |-> "unknown",
                          raw |-> NoFrame, analysis |-> NoAnalysis, img |-> NoFrame]]

NextFrame ==
    \/ UpdateFrameWhile
    \/ \E ok \in BOOLEAN : UpdateFrameRead(ok)
    \/ UpdateFrameAcquire
    \/ UpdateFrameAssign
    \/ UpdateFrameRelease
    \/ UpdateFrameSleep
    \/ \E kind \in Kinds, ex \in Exercises : PipeCall(kind, ex)
    \/ PipeRawAcquire
    \/ PipeRawCopy
    \/ \E lm, raises \in BOOLEAN : PipeAnalyze(lm, raises)
    \/ PipeJpegAcquire
    \/ PipeJpegCopy
    \/ \E enc \in BOOLEAN : PipeEncode(enc)
    \/ PipeEmit
    \/ PipeSleep

SpecFrame == InitFrame /\ [][NextFrame]_vars

\* ------------------------------------------------ VideoSource.find_source
\* One call of find_source at a time, statement by statement. opens[i]: whether
\* cv.VideoCapture(i) opens; yields[i]: whether its read returns a frame; at: the
\* position in sources_to_try; probed: the indices a capture was created for;
\* opened: the captures that are open and not released.
Resolver == "resolver"
sources_to_try == <<0, 1, 2>>
Devices == {sources_to_try[k] : k \in 1..Len(sources_to_try)}
\* return None
NoSource == -1

\* A read that is taken to have a frame whatever it returned.
ReadYields_Any(yields, source) == TRUE

\* `success, frame = cap.read()` ... `if success and frame is not None`
ReadYields(yields, source) == yields[source]

FindSourceMove(pc) ==
    /\ last' = Background(<<>>)
    /\ UNCHANGED <<active_cameras, active_streams, session_to_user, connected, cam, task>>

\* find_source() is called on a machine whose devices behave as opens and yields.
FindSourceCall(opens, yields) ==
    /\ pcs[Resolver].pc = "idle"
    /\ pcs' = [pcs EXCEPT ![Resolver] =
                  [pc |-> "for", cam |-> NoAgent, opens |-> opens, yields |-> yields,
                   at |-> 1, probed |-> <<>>, opened |-> {}, result |-> NoSource]]
    /\ FindSourceMove("for")

\* `for source in sources_to_try:` with `cap = cv2.VideoCapture(source)` and
\* `if cap.isOpened()`; after the last source, `return None`.
FindSourceFor ==
    /\ pcs[Resolver].pc = "for"
    /\ LET r == pcs[Resolver]
           source == sources_to_try[r.at]
       IN  IF r.at > Len(sources_to_try)
           THEN pcs' = [pcs EXCEPT ![Resolver].pc = "returned",
                                   ![Resolver].result = NoSource]
           ELSE IF r.opens[source]
           THEN pcs' = [pcs EXCEPT ![Resolver].pc = "read",
                                   ![Resolver].probed = Append(@, source),
                                   ![Resolver].opened = @ \cup {source}]
           ELSE pcs' = [pcs EXCEPT ![Resolver].at = @ + 1,
                                   ![Resolver].probed = Append(@, source)]
    /\ FindSourceMove("for")

\* `success, frame = cap.read()`
FindSourceRead ==
    /\ pcs[Resolver].pc = "read"
    /\ pcs' = [pcs EXCEPT ![Resolver].pc = "release"]
    /\ FindSourceMove("release")

\* `cap.release()`
FindSourceRelease ==
    /\ pcs[Resolver].pc = "release"
    /\ pcs' = [pcs EXCEPT ![Resolver].pc = "test",
                          ![Resolver].opened = @ \ {sources_to_try[pcs[Resolver].at]}]
    /\ FindSourceMove("test")

\* `if success and frame is not None: return source`, else the next source.
FindSourceTest ==
    /\ pcs[Resolver].pc = "test"
    /\ LET r == pcs[Resolver]
           source == sources_to_try[r.at]
       IN  IF ReadYields(r.yields, source)
           THEN pcs' = [pcs EXCEPT ![Resolver].pc = "returned",
                                   ![Resolver].result = source]
           ELSE pcs' = [pcs EXCEPT ![Resolver].pc = "for", ![Resolver].at = @ + 1]
    /\ FindSourceMove("for")

\* The caller has the result.
FindSourceDone ==
    /\ pcs[Resolver].pc = "returned"
    /\ pcs' = [pcs EXCEPT ![Resolver].pc = "idle"]
    /\ FindSourceMove("idle")

InitProbe ==
    InitWith(SessionAgents, SessionTasks,
             [th \in {Resolver} |->
                [pc |-> "idle", cam |-> NoAgent, opens |-> [i \in Devices |-> FALSE],
                 yields |-> [i \in Devices |-> FALSE], at |-> 1, probed |-> <<>>,
                 opened |-> {}, result |-> NoSource]])

NextProbe ==
    \/ \E opens, yields \in [Devices -> BOOLEAN] : FindSourceCall(opens, yields)
    \/ FindSourceFor
    \/ FindSourceRead
    \/ FindSourceRelease
    \/ FindSourceTest
    \/ FindSourceDone

SpecProbe == InitProbe /\ [][NextProbe]_vars

\* ------------------------------------------ PoseModel.calculate_joint_angle
\* The angle at p2 between p1 and p3, in whole degrees, on points of a grid whose
\* directions from p2 are multiples of 45 degrees, where arctan2 is exact.
Grid == {-1, 0, 1}
Points == [x : Grid, y : Grid]
Abs(n) == IF n < 0 THEN -n ELSE n

\* The direction (x, y) lies on an axis or on a diagonal.
Octant(x, y) == x = 0 \/ y = 0 \/ Abs(x) = Abs(y)

\* np.arctan2(y, x) * 180.0 / np.pi for such a direction: in (-180, 180], and 0
\* for (0, 0).
Arctan2Deg(y, x) ==
    IF y = 0 THEN (IF x >= 0 THEN 0 ELSE 180)
    ELSE IF x = 0 THEN (IF y > 0 THEN 90 ELSE -90)
    ELSE (IF y > 0 THEN 1 ELSE -1) * (IF x > 0 THEN 45 ELSE 135)

\* An angle that is never brought back under 180.
Reflex_Kept(angle) == angle

\* `if angle > 180.0: angle = 360 - angle`
Reflex(angle) == IF angle > 180 THEN 360 - angle ELSE angle

\* PoseModel.calculate_joint_angle(p1, p2, p3)
calculate_joint_angle(p1, p2, p3) ==
    LET degrees == Arctan2Deg(p3.y - p2.y, p3.x - p2.x)
                     - Arctan2Deg(p1.y - p2.y, p1.x - p2.x)
    IN  Reflex(Abs(degrees))

Calculator == "calculator"

\* calculate_joint_angle is called on three points and returns.
AngleCall(p1, p2, p3) ==
    /\ pcs[Calculator].pc = "idle"
    /\ Octant(p1.x - p2.x, p1.y - p2.y)
    /\ Octant(p3.x - p2.x, p3.y - p2.y)
    /\ pcs' = [pcs EXCEPT ![Calculator] =
                  [pc |-> "returned", cam |-> NoAgent, p1 |-> p1, p2 |-> p2, p3 |-> p3,
                   angle |-> calculate_joint_angle(p1, p2, p3)]]
    /\ last' = Background(<<>>)
    /\ UNCHANGED <<active_cameras, active_streams, session_to_user, connected, cam, task>>

\* The caller has the angle.
AngleDone ==
    /\ pcs[Calculator].pc = "returned"
    /\ pcs' = [pcs EXCEPT ![Calculator].pc = "idle"]
    /\ last' = Background(<<>>)
    /\ UNCHANGED <<active_cameras, active_streams, session_to_user, connected, cam, task>>

InitAngle ==
    \E p \in Points :
        InitWith(SessionAgents, SessionTasks,
                 [th \in {Calculator} |->
                    [pc |-> "idle", cam |-> NoAgent, p1 |-> p, p2 |-> p, p3 |-> p,
                     angle |-> 0]])

NextAngle ==
    \/ \E p1, p2, p3 \in Points : AngleCall(p1, p2, p3)
    \/ AngleDone

SpecAngle == InitAngle /\ [][NextAngle]_vars

\* ------------------------------------------------------ the FPS counters
\* Camera._update_frame's window: _frame_count (count), time.time() - _last_time
\* (since) and _fps, the last as the fraction num reads in den ticks. Time is in
\* ticks of 1/30 s; a device read takes one or two ticks.
Meter == "meter"
\* `if now - self._last_time >= 1.0`: one second, in ticks.
Second == 30
\* `time.sleep(0.1)`, in ticks.
SleepTicks == 3
\* The longest window followed, in ticks.
MaxWindow == 36
ReadTicks == {1, 2}

\* A window that is over only after more than a second.
WindowOver_Strict(elapsed) == elapsed > Second

\* `if now - self._last_time >= 1.0:`
WindowOver(elapsed) == elapsed >= Second

\* Camera.get_fps: round(self._fps, 2), in hundredths of a read per second.
get_fps(f) == (200 * f.num * Second + f.den) \div (2 * f.den)

\* Camera._update_frame, one iteration: capture.read() returns after dt ticks; a
\* frame is counted and the window is closed when it is over, a failure sleeps.
MeterRead(ok, dt) ==
    /\ pcs[Meter].since < MaxWindow
    /\ LET r == pcs[Meter]
           elapsed == r.since + dt
       IN  pcs' = [pcs EXCEPT ![Meter] =
                IF ~ok
                THEN [r EXCEPT !.ev = "failed", !.since = elapsed + SleepTicks]
                ELSE IF WindowOver(elapsed)
                THEN [r EXCEPT !.ev = "rollover", !.count = 0, !.since = 0,
                               !.fps = [num |-> r.count + 1, den |-> elapsed]]
                ELSE [r EXCEPT !.ev = "read", !.count = r.count + 1, !.since = elapsed]]
    /\ last' = Background(<<>>)
    /\ UNCHANGED <<active_cameras, active_streams, session_to_user, connected, cam, task>>

\* Camera.__init__: _fps = 0.0, _frame_count = 0, _last_time = time.time().
InitMeter ==
    InitWith(SessionAgents, SessionTasks,
             [th \in {Meter} |->
                [pc |-> "while", cam |-> NoAgent, ev |-> "init", count |-> 0,
                 since |-> 0, fps |-> [num |-> 0, den |-> 1]]])

NextMeter == \E ok \in BOOLEAN, dt \in ReadTicks : MeterRead(ok, dt)

SpecMeter == InitMeter /\ [][NextMeter]_vars

\* ================================================================ claims
\* The capture loops alive for user u.
LoopsOf(u) == {a \in AgentIds : cam[a].user = u /\ cam[a].thread = "alive"}

\* C1: in no reachable state do two capture loops for the same user run at the
\* same time, even when stop()'s bounded join times out.
C1_OneCaptureLoopPerUser == \A u \in Users : Cardinality(LoopsOf(u)) <= 1

\* C2: under any interleaving of concurrent start-camera and stop-camera requests
\* for one user, once the requests have returned the user has at most one running
\* Camera and every running Camera is the one registered for its user.
C2_RunningAgentsAreRegistered ==
    (\A r \in DOMAIN pcs : pcs[r].pc = "idle") =>
        \A a \in AgentIds :
            is_running(cam[a]) =>
                /\ cam[a].user \in DOMAIN active_cameras
                /\ active_cameras[cam[a].user] = a

\* C3: every 'frame' message produced for user u is delivered only to connections
\* bound to u.
C3_FramesOnlyToBoundConnections ==
    \A i \in 1..Len(last.out) :
        last.out[i].event = "frame" =>
            \A sid \in Recipients :
                sid \in DOMAIN session_to_user /\ session_to_user[sid] = last.out[i].user

\* The threads inside a `with self.lock:` block.
InLock == {th \in DOMAIN pcs : pcs[th].pc \in {"assign", "copy", "release"}}

\* C4: the frame slot is written only by the capture loop, every read and every
\* write of it happens while the thread holds the Camera's lock, and a reader's
\* copy is either no frame or one frame the capture loop has published.
C4_SlotUnderLock ==
    /\ [](\A th \in InLock : cam[LockAgent].lock = th)
    /\ [](\A th \in Readers : pcs[th].got \in {NoFrame} \cup 1..cam[LockAgent].frame)
    /\ [][cam'[LockAgent].frame # cam[LockAgent].frame =>
            /\ pcs[Capture].pc = "assign" /\ cam[LockAgent].lock = Capture
            /\ cam'[LockAgent].frame = pcs[Capture].got]_vars

\* A reader has copied the published frame under the lock while the other reader
\* waits for the lock.
C4_Witness ==
    /\ pcs["reader1"].pc = "release" /\ pcs["reader1"].got = 1
    /\ cam[LockAgent].lock = "reader1"
    /\ pcs["reader2"].pc = "acquire"

\* C5: a disconnect of a connection bound to u clears u's flag, stops and removes
\* u's Camera and removes the binding, each whether or not the others had
\* anything to do; a disconnect of a connection with no binding (a second
\* disconnect included) changes no registry state.
C5_DisconnectCleansUp ==
    [][last'.op = "disconnect" =>
        LET sid == last'.sid
        IN  IF sid \in DOMAIN session_to_user
            THEN LET u == session_to_user[sid]
                 IN  /\ u \notin DOMAIN active_streams'
                     /\ u \notin DOMAIN active_cameras'
                     /\ u \in DOMAIN active_cameras =>
                            /\ ~is_running(cam'[active_cameras[u]])
                            /\ cam'[active_cameras[u]].dev # "open"
                     /\ session_to_user' = Del(session_to_user, sid)
                     /\ \A v \in Users \ {u} :
                            /\ v \in DOMAIN active_streams' <=> v \in DOMAIN active_streams
                            /\ v \in DOMAIN active_cameras' <=> v \in DOMAIN active_cameras
            ELSE UNCHANGED <<active_cameras, active_streams, session_to_user, cam, task>>]_vars

\* A disconnect has just cleaned up after u1, who had a stream task and a Camera.
C5_Witness ==
    /\ last.op = "disconnect" /\ last.user = "u1"
    /\ "u1" \notin DOMAIN active_cameras \cup DOMAIN active_streams
    /\ \E t \in TaskIds : task[t].user = "u1" /\ task[t].cleared
    /\ \E a \in AgentIds : cam[a].user = "u1" /\ ~cam[a].running

\* C6: once a connection has disconnected, every user it started a stream for (here:
\* every user with a task that the connection scheduled and that is still in its
\* loop) has no Camera and no stream flag left, and the connection has no binding.
C6_DisconnectLeavesStartedUsersIdle ==
    [][last'.op = "disconnect" =>
        \A t \in TaskIds :
            (task[t].sid = last'.sid /\ Looping(task[t])) =>
                /\ task[t].user \notin DOMAIN active_cameras'
                /\ task[t].user \notin DOMAIN active_streams'
                /\ last'.sid \notin DOMAIN session_to_user']_vars

\* What C7 says of a start_stream step for connection sid and user u.
RefusedStream(sid, u) ==
    /\ last'.out = <<Msg("error", u)>>
    /\ UNCHANGED <<active_cameras, active_streams, cam, task>>

AcceptedStream(sid, u) ==
    /\ session_to_user' = Put(session_to_user, sid, u)
    /\ active_streams' = Put(active_streams, u, TRUE)
    /\ Cardinality({t \in TaskIds : task'[t] # task[t]}) = 1
    /\ \A t \in TaskIds : task'[t] # task[t] => task[t].pc = "free" /\ task'[t] = NewTask(u, sid)
    /\ last'.out = <<Msg("stream_started", u)>>

\* C8 as stated: a start_stream on connection c naming a user with a registered
\* Camera binds c, sets the flag, schedules exactly one task and emits exactly one
\* stream_started and no error.
C8_Original ==
    [][(last'.op = "start_stream" /\ last'.user \in DOMAIN active_cameras) =>
        \A ex \in Exercises \cup {NoExercise} :
            HandleStartStream(last'.sid, last'.user, ex) =>
                AcceptedStream(last'.sid, last'.user)]_vars

\* C8, amended: the same of a start_stream that carries an exercise type.
C8_StartStreamAccepted ==
    [][(last'.op = "start_stream" /\ last'.user \in DOMAIN active_cameras) =>
        \A ex \in Exercises :
            HandleStartStream(last'.sid, last'.user, ex) =>
                AcceptedStream(last'.sid, last'.user)]_vars

\* A start_stream has just been accepted: bound, flagged, one task scheduled.
C8_Witness ==
    /\ last.op = "start_stream" /\ last.out = <<Msg("stream_started", last.user)>>
    /\ session_to_user[last.sid] = last.user
    /\ last.user \in DOMAIN active_streams
    /\ \E t \in TaskIds : task[t].user = last.user /\ task[t].pc = "start"

\* C9: for every user at most one stream task is inside its loop at any time.
C9_OneStreamTaskPerUser ==
    \A u \in Users : Cardinality({t \in TaskIds : task[t].user = u /\ Looping(task[t])}) <= 1

\* C10: once a user's flag has been cleared, each of the user's tasks emits at most
\* the frame of the tick in progress and leaves at its next loop check.
C10_ClearedTaskStopsWithinOneTick == \A t \in TaskIds : task[t].late <= 1

\* C11: stop_stream clears the user's flag if it is set, emits stream_stopped and
\* no error, leaves the registry as it was when the flag was not set, and never
\* touches the agent map or the bindings.
C11_StopStreamIdempotent ==
    [][last'.op = "stop_stream" =>
        LET u == last'.user
        IN  /\ last'.out = <<Msg("stream_stopped", u)>>
            /\ active_streams' = IF u \in DOMAIN active_streams THEN Del(active_streams, u)
                                 ELSE active_streams
            /\ u \notin DOMAIN active_streams => UNCHANGED task
            /\ UNCHANGED <<active_cameras, session_to_user, cam>>]_vars

\* A stop_stream for u1 has left u1 without a flag, u2's flag in place and the
\* Camera and the binding where they were.
C11_Witness ==
    /\ last.op = "stop_stream" /\ last.user = "u1"
    /\ "u1" \notin DOMAIN active_streams /\ "u2" \in DOMAIN active_streams
    /\ DOMAIN active_cameras # {} /\ DOMAIN session_to_user # {}

\* C12: a request_frame produces exactly one message, a frame or an error, and an
\* error when the user has no Camera, the Camera is not running or there is no
\* frame; it changes nothing else.
C12_RequestFrameOneMessage ==
    [][last'.op = "request_frame" =>
        LET u == last'.user
        IN  /\ Len(last'.out) = 1
            /\ last'.out[1] \in {Msg("frame", u), Msg("error", u)}
            /\ (\/ u \notin DOMAIN active_cameras
                \/ ~is_running(cam[active_cameras[u]])
                \/ get_frame(cam[active_cameras[u]]) = NoFrame)
                   => last'.out[1] = Msg("error", u)
            /\ UNCHANGED <<active_cameras, active_streams, session_to_user, cam, task>>]_vars

\* A request_frame for a user whose running Camera has no frame yet got an error.
C12_Witness ==
    /\ last.op = "request_frame" /\ last.out = <<Msg("error", last.user)>>
    /\ last.user \in DOMAIN active_cameras
    /\ is_running(cam[active_cameras[last.user]])
    /\ get_frame(cam[active_cameras[last.user]]) = NoFrame

\* C13: the capture loop never ends because of failed device reads: after a
\* failed read it backs off and reads again, whatever the number of failures in a
\* row, and its thread ends only at a loop test that finds running cleared by stop().
C13_FailedReadsNeverEndTheLoop ==
    /\ [](cam[LockAgent].running => cam[LockAgent].thread = "alive")
    /\ [][(cam[LockAgent].thread = "alive" /\ cam'[LockAgent].thread = "done")
            => (~cam[LockAgent].running /\ pcs[Stopper].pc # "idle")]_vars
    /\ [][(pcs[Capture].pc = "read" /\ pcs'[Capture].pc # "read"
             /\ pcs'[Capture].fails > 0) => pcs'[Capture].pc = "sleep"]_vars
    /\ [][(pcs[Capture].pc = "sleep" /\ pcs'[Capture].pc # "sleep")
            => pcs'[Capture].pc = "while"]_vars

C13_Witness ==
    /\ pcs[Capture].pc = "read"
    /\ pcs[Capture].fails = MaxFails
    /\ cam[LockAgent].running
    /\ cam[LockAgent].thread = "alive"

\* C14: once stop() has cleared running, the loop starts no device read after the
\* loop test that found it cleared, and, when device reads return and every thread
\* keeps running, the loop has ended and the device is released in the end.
C14_StopEndsLoopAndReleasesDevice ==
    /\ [][(pcs[Capture].pc = "while" /\ ~cam[LockAgent].running
             /\ pcs'[Capture].pc # "while") => pcs'[Capture].pc = "done"]_vars
    /\ [](pcs[Capture].pc = "done" => [](pcs[Capture].pc = "done"))
    /\ (~cam[LockAgent].running)
          ~> (cam[LockAgent].thread = "done" /\ cam[LockAgent].dev = "released")

C14_Witness ==
    /\ cam[LockAgent].thread = "done"
    /\ cam[LockAgent].dev = "released"
    /\ cam[LockAgent].frame # NoFrame
    /\ pcs[Capture].pc = "done"

\* C15: stop() returns whatever the capture thread does: when the join ends with
\* the loop still inside a device read, stop() releases the device all the same and
\* returns, and the handler that called it removes the registry entry.
C15_StopAlwaysReturns ==
    /\ (pcs[Stopper].pc = "join")
          ~> (/\ pcs[Stopper].pc = "returned"
              /\ cam[LockAgent].dev = "released"
              /\ RaceUser \notin DOMAIN active_cameras)
    /\ [](pcs[Stopper].pc \in {"del", "returned"} => cam[LockAgent].dev = "released")
    /\ [](pcs[Stopper].pc = "returned" => RaceUser \notin DOMAIN active_cameras)

C15_Witness ==
    /\ pcs[Stopper].pc = "returned"
    /\ pcs[Capture].pc = "read"
    /\ cam[LockAgent].thread = "alive"
    /\ cam[LockAgent].dev = "released"
    /\ RaceUser \notin DOMAIN active_cameras

C17_StartFailsWhenDeviceUnavailable ==
    (last.op = "start_camera" /\ last.code = 200)
        => /\ last.user \in DOMAIN active_cameras
           /\ cam[active_cameras[last.user]].dev = "open"

\* C18: stop-camera for a user with no registered Camera is answered 404 and
\* leaves the three maps and every Camera as they are; for a user with one it is
\* answered 200, that Camera is stopped and exactly that user's entry is removed.
C18_StopCameraRemovesOnlyThatUser ==
    [][last'.op = "stop_camera" =>
        LET u == last'.user
        IN  /\ UNCHANGED <<active_streams, session_to_user>>
            /\ IF u \notin DOMAIN active_cameras
               THEN /\ last'.code = 404
                    /\ UNCHANGED <<active_cameras, cam, task>>
               ELSE /\ last'.code = 200
                    /\ DOMAIN active_cameras' = DOMAIN active_cameras \ {u}
                    /\ \A v \in DOMAIN active_cameras' :
                          /\ active_cameras'[v] = active_cameras[v]
                          /\ cam'[active_cameras[v]] = cam[active_cameras[v]]
                    /\ ~cam'[active_cameras[u]].running
                    /\ cam'[active_cameras[u]].dev # "open"]_vars

C18_Witness ==
    /\ last.op = "stop_camera"
    /\ last.code = 200
    /\ last.user = "u1"
    /\ "u1" \notin DOMAIN active_cameras
    /\ "u2" \in DOMAIN active_cameras
    /\ is_running(cam[active_cameras["u2"]])
    /\ \E a \in AgentIds : cam[a].user = "u1" /\ cam[a].thread = "alive" /\ ~cam[a].running

\* C19: every iteration of the stream_frames loop sleeps for the inter-tick delay
\* before the next loop test, an iteration without a frame included: a task that
\* leaves its tick and stays in the loop is in the sleep.
C19_EveryIterationYields ==
    [][\A t \in TaskIds :
          (task[t].pc = "tick" /\ task'[t].pc # "tick" /\ Looping(task'[t]))
              => task'[t].pc = "sleep"]_vars

\* C20: an exception inside a tick ends the loop of that task and of no other: the
\* task emits nothing and its slot is free, every other task is as it was, and
\* every registered Camera (the user's own included), the registry, the stream
\* flags and the bindings are as they were.
C20_TickExceptionEndsOnlyThatTask ==
    [][last'.op = "stream_error" =>
        /\ last'.out = <<>>
        /\ \E t \in TaskIds :
              /\ task[t].pc = "tick"
              /\ task[t].user = last'.user
              /\ task'[t] = FreeTask
              /\ \A o \in TaskIds \ {t} : task'[o] = task[o]
        /\ UNCHANGED <<active_cameras, active_streams, session_to_user>>
        /\ \A v \in DOMAIN active_cameras :
              cam'[active_cameras[v]] = cam[active_cameras[v]]]_vars

C20_Witness ==
    /\ last.op = "stream_error"
    /\ last.user = "u1"
    /\ "u1" \in DOMAIN active_cameras
    /\ is_running(cam[active_cameras["u1"]])
    /\ cam[active_cameras["u1"]].thread = "alive"
    /\ \A t \in TaskIds : task[t].user # "u1"
    /\ \E t \in TaskIds : task[t].user = "u2" /\ Looping(task[t])

\* C21: a failed image encoding is surfaced as an error event on the stream path
\* as on the request path: a tick that had a frame in the slot and produced no
\* image (cv.imencode failed) emits one 'error' message for the task's user.
C21_EncodingFailureIsAnErrorEvent ==
    [][\A t \in TaskIds :
          (/\ task[t].pc = "tick"
           /\ task'[t].pc = "check"
           /\ get_frame(cam[task[t].cam]) # NoFrame)
              => last'.out = <<Msg("error", task[t].user)>>]_vars

\* C24: the first real-time event of a connection that declares a user id,
\* request_frame as well as start_stream, binds the connection to that user, and a
\* binding is removed only by the disconnect of its connection.
C24_BindingByFirstEventRemovedByDisconnect ==
    [][/\ last'.op \in {"request_frame", "start_stream"}
            => last'.sid \in DOMAIN session_to_user'
       /\ \A sid \in DOMAIN session_to_user \ DOMAIN session_to_user' :
            last'.op = "disconnect" /\ last'.sid = sid]_vars

\* C22: when a frame is analysed and the landmark stage finds nothing, the
\* analysis is None and nothing is raised, and the run goes on to the image: a
\* run that reaches the emit sends the 'frame' message whatever the analysis is.
C22_NoLandmarksStillDeliversFrame ==
    /\ [][(pcs[Pipeline].pc = "analyze" /\ pcs'[Pipeline].lm = "none")
            => /\ pcs'[Pipeline].analysis = NoAnalysis
               /\ pcs'[Pipeline].pc = "jpeg_acquire"
               /\ last'.out = <<>>
               /\ last'.op = "background"]_vars
    /\ [][(pcs[Pipeline].pc = "emit" /\ pcs'[Pipeline].pc # "emit")
            => /\ last'.out = <<Msg("frame", RaceUser)>>
               /\ pcs'[Pipeline].analysis = pcs[Pipeline].analysis]_vars
    /\ [][(pcs[Pipeline].pc = "encode" /\ pcs'[Pipeline].pc = "idle")
            => pcs[Pipeline].kind = "request" \/ last'.out = <<>>]_vars

C22_Witness ==
    /\ pcs[Pipeline].lm = "none"
    /\ pcs[Pipeline].raw # NoFrame
    /\ pcs[Pipeline].analysis = NoAnalysis
    /\ pcs[Pipeline].kind = "stream"
    /\ pcs[Pipeline].pc = "sleep"
    /\ last.out = <<Msg("frame", RaceUser)>>

\* C23: with no classifier loaded, the analysis of a frame with landmarks is the
\* three named angles of the exercise with a null classification, and the
\* analysis raises nothing.
C23_NoClassifierGivesAnglesOnly ==
    /\ [](pcs[Pipeline].lm = "found" /\ ~pcs[Pipeline].svm
            => pcs[Pipeline].analysis =
                  [angles |-> IF pcs[Pipeline].ex = "pushup"
                              THEN {"elbow", "body", "shoulder"}
                              ELSE {"knee", "hip", "back"},
                   svm |-> NoForm])
    /\ [][(pcs[Pipeline].pc = "analyze" /\ ~pcs[Pipeline].svm)
            => /\ pcs'[Pipeline].pc \in {"analyze", "jpeg_acquire"}
               /\ last'.op = "background"]_vars

C23_Witness ==
    /\ pcs[Pipeline].lm = "found"
    /\ ~pcs[Pipeline].svm
    /\ pcs[Pipeline].ex = "squat"
    /\ pcs[Pipeline].analysis.angles = {"knee", "hip", "back"}
    /\ pcs[Pipeline].analysis.svm = NoForm
    /\ last.op = "request_frame"
    /\ last.out = <<Msg("frame", RaceUser)>>

\* C28: the analysis and the image of one frame message come from the same
\* captured frame: at the emit, the frame that was analysed (none when the slot
\* was empty) is the frame that was drawn and encoded.
C28_AnalysisAndImageOfSameFrame ==
    pcs[Pipeline].pc = "emit" => pcs[Pipeline].raw = pcs[Pipeline].img

\* C29: the frame-slot lock is held only for the assignment of the slot and for
\* the copy of it: the capture loop reads the device and sleeps without it, the
\* message thread analyses, encodes, emits and sleeps without it.
C29_LockHeldOnlyForAssignAndCopy ==
    /\ cam[LockAgent].lock = Capture <=> pcs[Capture].pc \in {"assign", "release"}
    /\ cam[LockAgent].lock = Pipeline <=> pcs[Pipeline].pc \in {"raw_copy", "jpeg_copy"}
    /\ cam[LockAgent].lock \in {Capture, Pipeline, NoThread}

C29_Witness ==
    /\ pcs[Pipeline].pc = "sleep"
    /\ pcs[Capture].pc = "sleep"
    /\ pcs[Pipeline].img # NoFrame
    /\ cam[LockAgent].lock = NoThread

\* C25: find_source probes 0, 1, 2 in that order and stops at the first index
\* that opens and yields a frame, which it returns; it returns None exactly when no
\* index does both; no capture it opened is still open when it returns.
C25_FindSourceFirstWorkingIndex ==
    /\ Cardinality(pcs[Resolver].opened) <= 1
    /\ pcs[Resolver].pc = "returned" =>
          LET r == pcs[Resolver]
              good == {i \in 0..2 : r.opens[i] /\ r.yields[i]}
              first == CHOOSE i \in good : \A j \in good : i <= j
          IN  /\ r.opened = {}
              /\ IF good = {}
                 THEN r.result = NoSource /\ r.probed = <<0, 1, 2>>
                 ELSE r.result = first /\ r.probed = [k \in 1..(first + 1) |-> k - 1]

C25_Witness ==
    /\ pcs[Resolver].pc = "returned"
    /\ pcs[Resolver].result = 1
    /\ pcs[Resolver].opens[0]
    /\ ~pcs[Resolver].yields[0]
    /\ pcs[Resolver].opens[2]
    /\ pcs[Resolver].yields[2]
    /\ pcs[Resolver].probed = <<0, 1>>

\* C26: the joint angle is the same with its endpoints exchanged and lies in
\* [0, 180]: a raw difference above 180 is replaced by 360 minus it, and a raw
\* difference of exactly 180 stays 180.
C26_AngleSymmetricAndBounded ==
    pcs[Calculator].pc = "returned" =>
        LET r == pcs[Calculator]
            raw == Abs(Arctan2Deg(r.p3.y - r.p2.y, r.p3.x - r.p2.x)
                         - Arctan2Deg(r.p1.y - r.p2.y, r.p1.x - r.p2.x))
        IN  /\ r.angle = calculate_joint_angle(r.p3, r.p2, r.p1)
            /\ r.angle \in 0..180
            /\ raw > 180 => r.angle = 360 - raw
            /\ raw <= 180 => r.angle = raw

C26_Witness ==
    /\ pcs[Calculator].pc = "returned"
    /\ pcs[Calculator].p1 = [x |-> 1, y |-> 0]
    /\ pcs[Calculator].p2 = [x |-> 0, y |-> 0]
    /\ pcs[Calculator].p3 = [x |-> -1, y |-> 0]
    /\ pcs[Calculator].angle = 180

\* C27: the rate reported is that of the last closed window: the successful reads
\* counted since the window started over the time elapsed when it was closed, and
\* a window is closed by the first successful read a second or more after its
\* start; failed reads are not counted; 30 reads in one second report 30.0.
C27_FpsOfLastClosedWindow ==
    /\ [][pcs'[Meter] # pcs[Meter] =>
            LET r == pcs[Meter]
                n == pcs'[Meter]
            IN  /\ n.ev = "failed" =>
                      n.count = r.count /\ n.fps = r.fps /\ n.since > r.since
                /\ n.ev = "read" =>
                      /\ n.count = r.count + 1
                      /\ n.fps = r.fps
                      /\ n.since > r.since
                      /\ n.since < Second
                /\ n.ev = "rollover" =>
                      /\ n.fps.num = r.count + 1
                      /\ n.fps.den >= Second
                      /\ n.fps.den - r.since \in ReadTicks
                      /\ n.count = 0
                      /\ n.since = 0]_vars
    /\ []((pcs[Meter].fps.num = 30 /\ pcs[Meter].fps.den = Second)
            => get_fps(pcs[Meter].fps) = 3000)

C27_Witness ==
    /\ pcs[Meter].ev = "rollover"
    /\ pcs[Meter].fps = [num |-> 30, den |-> Second]
    /\ get_fps(pcs[Meter].fps) = 3000

\* C30: the three registry maps are changed by the handlers only: no step of a
\* capture loop and no step of a stream task, its exit on an exception or on a
\* stopped camera included, adds, removes or changes an entry.
C30_LoopsLeaveRegistryAlone ==
    [][last'.op \in {"background", "stream_error"}
         => UNCHANGED <<active_cameras, active_streams, session_to_user>>]_vars

C30_Witness ==
    /\ last.op = "stream_error"
    /\ last.user \in DOMAIN active_streams
    /\ last.user \in DOMAIN active_cameras
    /\ DOMAIN session_to_user # {}
    /\ \A t \in TaskIds : task[t].pc = "free"

\* The connections bound to user v in the bindings b.
BoundTo(b, v) == {sid \in DOMAIN b : b[sid] = v}

\* C31: a request or event naming user u, and the disconnect of a connection
\* bound to u, leave every other user's registered Camera (its entry, its running
\* flag, its frame slot), stream flag and connection bindings as they were.
C31_SessionsIndependent ==
    [][last'.op \in {"start_camera", "stop_camera", "start_stream", "stop_stream",
                     "request_frame", "disconnect"} =>
        \A v \in Users \ {last'.user} :
            /\ (v \in DOMAIN active_cameras) <=> (v \in DOMAIN active_cameras')
            /\ v \in DOMAIN active_cameras =>
                  /\ active_cameras'[v] = active_cameras[v]
                  /\ cam'[active_cameras[v]].running = cam[active_cameras[v]].running
                  /\ cam'[active_cameras[v]].frame = cam[active_cameras[v]].frame
            /\ (v \in DOMAIN active_streams) <=> (v \in DOMAIN active_streams')
            /\ BoundTo(session_to_user', v) = BoundTo(session_to_user, v)]_vars

\* C32: a user whose stream flag is set has a registered Camera that is running.
C32_StreamFlagImpliesRunningCamera ==
    \A u \in DOMAIN active_streams :
        /\ u \in DOMAIN active_cameras
        /\ is_running(cam[active_cameras[u]])

\* C33: between handler executions every Camera in the registry is running: a
\* handler that stops a Camera deletes its entry before it returns.
C33_RegisteredCamerasAreRunning ==
    \A u \in DOMAIN active_cameras :
        /\ is_running(cam[active_cameras[u]])
        /\ cam[active_cameras[u]].user = u

C33_Witness ==
    /\ last.op = "stop_camera"
    /\ last.code = 200
    /\ DOMAIN active_cameras = {}
    /\ \E a \in AgentIds : cam[a].thread = "alive" /\ ~is_running(cam[a])

\* C35: the capture loop issues no device read once the device is released,
\* whatever the interleaving with stop(), a join that times out included.
C35_NoReadAfterRelease ==
    [][(pcs[Capture].pc = "read" /\ pcs'[Capture].pc # "read")
         => cam[LockAgent].dev # "released"]_vars

C37_StopIdempotent ==
    /\ [](pcs[Stopper].releases <= 1)
    /\ [][(/\ pcs[Stopper].pc \in {"returned", "again_join", "again_release"}
           /\ pcs'[Stopper].pc # pcs[Stopper].pc)
            => /\ cam' = cam
               /\ UNCHANGED <<active_cameras, active_streams, session_to_user>>]_vars

C37_Witness ==
    /\ pcs[Stopper].pc = "finished"
    /\ pcs[Stopper].releases = 1
    /\ cam[LockAgent].dev = "released"
    /\ cam[LockAgent].thread = "done"
    /\ ~cam[LockAgent].running

\* The Cameras that one of the two registries holds for user u and whose capture
\* loop has not ended.
LiveRegistered(u) ==
    {a \in AgentIds : /\ cam[a].thread = "alive"
                      /\ \/ u \in DOMAIN active_cameras /\ active_cameras[u] = a
                         \/ pcs[u].cam = a}

\* C34: over the registries of /camera and /pushup_camera together, no user has
\* more than one Camera with a capture loop that is alive.
C34_OneLiveCameraPerUser == \A u \in Users : Cardinality(LiveRegistered(u)) <= 1

====
